---- MODULE Spec2Model ----
(***************************************************************************)
(* A model of grinder.py, the Git repository data miner.                   *)
(*                                                                         *)
(*   SpecTagger    test_regexp applied to a commit message                 *)
(*   SpecMatcher   the per-hunk line matching of build (lines 292-322)     *)
(*   SpecBuild     build: one transaction per walked commit, with replay   *)
(*   SpecResolver  process: the origin query over a store                  *)
(*                                                                         *)
(* Python's None is modelled by the integer None (-1); line numbers, ids   *)
(* and dates are naturals.                                                 *)
(***************************************************************************)
EXTENDS Integers, Sequences, FiniteSets, TLC

VARIABLES
    message,        \* tagger: the commit message, a sequence of tokens
    tags,           \* tagger: the list test_regexp returned
    tpc,            \* tagger: "ready" | "tagged"
    hunk,           \* matcher: the hunk being decomposed
    changed_lines,  \* matcher: the retained (old index, new index) pairs
    emitted,        \* matcher: the Edits stored for the hunk, in order
    mpc,            \* matcher: "ready" | "matched"
    repo,           \* build: the repository (parents, commit_time, message, diffs)
    walk,           \* build: the order repo.walk yields the commits in
    pos,            \* build: index in walk of the commit being processed
    phase,          \* build: position inside the loop body of build
    pidx,           \* build: index of the next parent of the current commit
    tx,             \* the store as seen inside the open transaction
    db,             \* the committed store
    run,            \* build: number of build runs started
    pc,             \* build: "idle" | "running" | "done" | "error" | "killed"
    err,            \* build: what ended the run: "none" | "diff" | "integrity"
    outcome,        \* build: how each finished run ended
    snap,           \* build: the committed store when the first run returned
    saved,          \* build: commits whose own store.commit() has run
    options,        \* process: [from_date, to_date], day numbers or None
    todo,           \* process: bugs (ids) still to be visited
    sel,            \* process: per visited bug, the commit selected per (fix, edit)
    report          \* process: the printed lines, [bug_no, hexes]

vars == <<message, tags, tpc, hunk, changed_lines, emitted, mpc,
          repo, walk, pos, phase, pidx, tx, db, run, pc, err, outcome, snap,
          saved, options, todo, sel, report>>

taggerVars   == <<message, tags, tpc>>
matcherVars  == <<hunk, changed_lines, emitted, mpc>>
buildVars    == <<repo, walk, pos, phase, pidx, tx, run, pc, err, outcome,
                  snap, saved>>
resolverVars == <<options, todo, sel, report>>

\* Python's None.
None == 0 - 1

Max(a, b) == IF a >= b THEN a ELSE b
Min(a, b) == IF a <= b THEN a ELSE b

RECURSIVE Flatten(_)
Flatten(ss) == IF ss = <<>> THEN <<>> ELSE Head(ss) \o Flatten(Tail(ss))

Range(s) == {s[i] : i \in 1..Len(s)}

\* All sequences over S of length at most n.
SeqsUpTo(S, n) == UNION {[1..k -> S] : k \in 0..n}

(***************************************************************************)
(* Message tagger: regexp (lines 42-49) and test_regexp (lines 55-61).     *)
(* A message is a sequence of tokens: a decimal digit, one of the          *)
(* characters "#", " ", "[", "]", the word "bug", the phrase "Fixes issue "*)
(* (standing for (?:Fixes|Closes|Resolves) issue followed by a blank), or  *)
(* "x" for any other character.                                            *)
(***************************************************************************)
MaxDigit   == 2     \* digits 1..MaxDigit occur in messages
MaxPhrases == 3     \* a message is made of at most MaxPhrases phrases

DigitTok(d) == ToString(d)
AllDigits == {DigitTok(d) : d \in 0..9}
IsDigit(t) == t \in AllDigits
DigitVal(t) == CHOOSE d \in 0..9 : DigitTok(d) = t

\* End (exclusive) of the longest run of digits starting at i: greedy \d+.
RECURSIVE DigitsEnd(_, _)
DigitsEnd(m, i) ==
    IF i <= Len(m) /\ IsDigit(m[i]) THEN DigitsEnd(m, i + 1) ELSE i

\* int() of the digits m[i..j-1].
RECURSIVE IntOf(_, _, _)
IntOf(m, i, j) ==
    IF j <= i THEN 0 ELSE 10 * IntOf(m, i, j - 1) + DigitVal(m[j - 1])

\* End (exclusive) of the longest run of [# \t] starting at i.
RECURSIVE SkipHashBlank(_, _)
SkipHashBlank(m, i) ==
    IF i <= Len(m) /\ m[i] \in {"#", " "} THEN SkipHashBlank(m, i + 1) ELSE i

\* Each MatchAt_* is pattern.match anchored at i: {} or {groups}.
\* r'bug[# \t]*(\d+)'
MatchAt_bug_number(m, i) ==
    IF m[i] = "bug"
    THEN LET k == SkipHashBlank(m, i + 1)
             e == DigitsEnd(m, k)
         IN  IF e > k THEN {<<IntOf(m, k, e)>>} ELSE {}
    ELSE {}

\* r'\[(\d+)\]'
MatchAt_bracket_number(m, i) ==
    IF m[i] = "["
    THEN LET e == DigitsEnd(m, i + 1)
         IN  IF e > i + 1 /\ e <= Len(m) /\ m[e] = "]"
             THEN {<<IntOf(m, i + 1, e)>>} ELSE {}
    ELSE {}

\* r'\#(\d+)'
MatchAt_issue_number(m, i) ==
    IF m[i] = "#"
    THEN LET e == DigitsEnd(m, i + 1)
         IN  IF e > i + 1 THEN {<<IntOf(m, i + 1, e)>>} ELSE {}
    ELSE {}

\* r'(?:Fixes|Closes|Resolves) issue \#?(\d+)'
MatchAt_sentence(m, i) ==
    IF m[i] = "Fixes issue "
    THEN LET k == IF i + 1 <= Len(m) /\ m[i + 1] = "#" THEN i + 2 ELSE i + 1
             e == DigitsEnd(m, k)
         IN  IF e > k THEN {<<IntOf(m, k, e)>>} ELSE {}
    ELSE {}

MatchAt(key, m, i) ==
    CASE key = "bug_number"     -> MatchAt_bug_number(m, i)
      [] key = "bracket_number" -> MatchAt_bracket_number(m, i)
      [] key = "issue_number"   -> MatchAt_issue_number(m, i)
      [] key = "sentence"       -> MatchAt_sentence(m, i)

\* pattern.search(string): the leftmost match, {} when there is none.
PatternSearch(key, m) ==
    LET hits == {i \in 1..Len(m) : MatchAt(key, m, i) # {}}
    IN  IF hits = {} THEN {}
        ELSE MatchAt(key, m, CHOOSE i \in hits : \A j \in hits : i <= j)

(***************************************************************************)
(* regexp is a Python 2 dict literal with four unicode keys.  CPython 2    *)
(* stores a dict of up to five keys in a table of eight slots, a key going *)
(* to slot hash(key) mod 8 (the four keys do not collide), and items()     *)
(* lists the table in slot order.  With CPython 2's string hash the slots  *)
(* are as below, on 32- and 64-bit builds alike.                           *)
(***************************************************************************)
regexp_keys == {"bug_number", "bracket_number", "issue_number", "sentence"}

regexp_slot_swapped(key) ==
    CASE key = "bug_number"     -> 0
      [] key = "bracket_number" -> 3
      [] key = "issue_number"   -> 2
      [] key = "sentence"       -> 7

regexp_slot(key) ==
    CASE key = "bug_number"     -> 0
      [] key = "bracket_number" -> 2
      [] key = "issue_number"   -> 3
      [] key = "sentence"       -> 7

\* regexp.items(): the keys in slot order.
RECURSIVE ItemsFrom(_)
ItemsFrom(keys) ==
    IF keys = {} THEN <<>>
    ELSE LET k == CHOOSE k \in keys :
                     \A o \in keys : regexp_slot(k) <= regexp_slot(o)
         IN  <<k>> \o ItemsFrom(keys \ {k})

regexp_items == ItemsFrom(regexp_keys)

\* test_regexp: the groups of the first pattern of regexp.items() that matches.
RECURSIVE TryPatterns(_, _)
TryPatterns(items, string) ==
    IF items = <<>> THEN <<>>
    ELSE LET m == PatternSearch(Head(items), string)
         IN  IF m = {} THEN TryPatterns(Tail(items), string)
             ELSE CHOOSE g \in m : TRUE

test_regexp(string) == TryPatterns(regexp_items, string)

\* The phrases messages are made of.
Phrases ==
    UNION {{ <<"bug", " ", DigitTok(d)>>,
             <<"[", DigitTok(d), "]">>,
             <<"#", DigitTok(d)>>,
             <<"Fixes issue ", "#", DigitTok(d)>>,
             <<"Fixes issue ", DigitTok(d)>>,
             <<DigitTok(d)>> } : d \in 1..MaxDigit}
    \cup {<<"x">>, <<"bug">>, <<"#">>}

Messages == {Flatten(ps) : ps \in SeqsUpTo(Phrases, MaxPhrases)}

(***************************************************************************)
(* Hunk decomposition and line matching: build, lines 292-322.             *)
(* A hunk is [old_file, new_file, old_start, new_start, data]; data is the *)
(* line stream, each line [body, origin] with origin " " (context), "+"    *)
(* (GIT_DIFF_LINE_ADDITION) or "-" (GIT_DIFF_LINE_DELETION).  A body is a  *)
(* sequence of characters.                                                 *)
(***************************************************************************)
MaxBodyLen   == 3   \* line bodies have 1..MaxBodyLen characters
MaxHunkLines == 4   \* a hunk's line stream has at most MaxHunkLines lines

\* line 292: old_data = [l for l in h.data if l[1] != GIT_DIFF_LINE_ADDITION]
old_data(h) == SelectSeq(h.data, LAMBDA l : l.origin # "+")
\* line 293: new_data = [l for l in h.data if l[1] != GIT_DIFF_LINE_DELETION]
new_data(h) == SelectSeq(h.data, LAMBDA l : l.origin # "-")

\* [(l[0], i) for i, l in enumerate(view) if l[1] == origin], i counted from 0.
Enumerated(view, origin) ==
    LET at == SelectSeq([i \in 1..Len(view) |-> i],
                        LAMBDA i : view[i].origin = origin)
    IN  [k \in 1..Len(at) |-> [body |-> view[at[k]].body, idx |-> at[k] - 1]]

\* line 297
deletions(h) == Enumerated(old_data(h), "-")
\* line 298
additions(h) == Enumerated(new_data(h), "+")

\* The Levenshtein distance of two character sequences: the least number
\* of insertions, deletions and substitutions (equal first characters are
\* kept, which loses no shorter edit).
RECURSIVE Levenshtein(_, _)
Levenshtein(a, b) ==
    IF a = <<>> THEN Len(b)
    ELSE IF b = <<>> THEN Len(a)
    ELSE IF Head(a) = Head(b) THEN Levenshtein(Tail(a), Tail(b))
    ELSE LET sub == Levenshtein(Tail(a), Tail(b)) + 1
             del == Levenshtein(Tail(a), b) + 1
             ins == Levenshtein(a, Tail(b)) + 1
         IN  Min(sub, Min(del, ins))

RECURSIVE Factorial(_)
Factorial(n) == IF n <= 1 THEN 1 ELSE n * Factorial(n - 1)

\* Costs are the rationals distance / longer length; the model keeps them
\* exact as integers, multiplied by CostScale (a multiple of every length
\* and of 5, so that 0.4 is the integer 2 * CostScale / 5).
CostScale == 5 * Factorial(MaxBodyLen + 1)

\* Line bodies: words of 1..MaxBodyLen letters "a", and the longest with its
\* last letter replaced by "b".
Bodies ==
    {[k \in 1..n |-> "a"] : n \in 1..MaxBodyLen}
    \cup {[k \in 1..MaxBodyLen |-> IF k = MaxBodyLen THEN "b" ELSE "a"]}

\* levenshtein_distance(x, y, True): the distance divided by the longer length.
levenshtein_distance(x, y) ==
    (Levenshtein(x, y) * CostScale) \div Max(Len(x), Len(y))

\* line 303: the distances over product(deletions, additions), row by row.
FlatDistances(dels, adds) ==
    [k \in 1..(Len(dels) * Len(adds)) |->
        levenshtein_distance(dels[((k - 1) \div Len(adds)) + 1].body,
                             adds[((k - 1) % Len(adds)) + 1].body)]

\* lines 304-305: matrix = [d[x:x+step] for x in xrange(0, len(d), step)]
CostMatrix(dels, adds) ==
    LET d    == FlatDistances(dels, adds)
        step == Len(adds)
    IN  [r \in 1..(Len(d) \div step) |-> SubSeq(d, (r - 1) * step + 1, r * step)]

\* The one-to-one assignments of n rows to m columns that use every row
\* (n <= m) or every column (n > m), as sets of <<row, column>>.
Assignments(n, m) ==
    IF n <= m
    THEN {{<<i, f[i]>> : i \in 1..n} :
             f \in {g \in [1..n -> 1..m] :
                      \A i, j \in 1..n : i # j => g[i] # g[j]}}
    ELSE {{<<f[j], j>> : j \in 1..m} :
             f \in {g \in [1..m -> 1..n] :
                      \A i, j \in 1..m : i # j => g[i] # g[j]}}

RECURSIVE TotalCost(_, _)
TotalCost(matrix, pairs) ==
    IF pairs = {} THEN 0
    ELSE LET p == CHOOSE p \in pairs : TRUE
         IN  matrix[p[1]][p[2]] + TotalCost(matrix, pairs \ {p})

\* line 307: hungarian(matrix) returns a minimum-cost assignment; which one
\* among several of the same cost is the library's choice, so the model
\* has the set of them all.
hungarian(matrix) ==
    LET all   == Assignments(Len(matrix), Len(matrix[1]))
        costs == {TotalCost(matrix, a) : a \in all}
        best  == CHOOSE c \in costs : \A o \in costs : c <= o
    IN  {a \in all : TotalCost(matrix, a) = best}

\* line 308: 0.0 < matrix[i][j] and matrix[i][j] < 0.4
IsChangedCost_closed(c) == 0 <= c /\ 5 * c < 2 * CostScale

IsChangedCost(c) == 0 < c /\ 5 * c < 2 * CostScale

\* The results hungarian can give for the hunk; line 302 skips the call
\* when either vector is empty.
Indexes(h) ==
    LET dels == deletions(h)
        adds == additions(h)
    IN  IF Len(dels) # 0 /\ Len(adds) # 0
        THEN hungarian(CostMatrix(dels, adds))
        ELSE {{}}

\* lines 301-308: changed_lines, as the set of (old index, new index).
ChangedLines(h, indexes) ==
    LET dels == deletions(h)
        adds == additions(h)
    IN  IF Len(dels) # 0 /\ Len(adds) # 0
        THEN LET matrix == CostMatrix(dels, adds)
             IN  {<<dels[p[1]].idx, adds[p[2]].idx>> :
                     p \in {q \in indexes : IsChangedCost(matrix[q[1]][q[2]])}}
        ELSE {}

\* The elements of a finite set of pairs as a sequence, by first component.
RECURSIVE PairsInOrder(_)
PairsInOrder(ps) ==
    IF ps = {} THEN <<>>
    ELSE LET p == CHOOSE p \in ps : \A q \in ps : p[1] <= q[1]
         IN  <<p>> \o PairsInOrder(ps \ {p})

\* line 316: x not in [i for i, j in changed_lines]
IsPureDeletion_byNew(x, changed) == x \notin {p[2] : p \in changed}

IsPureDeletion(x, changed) == x \notin {p[1] : p \in changed}

\* line 321: y not in [j for i, j in changed_lines]
IsPureAddition(y, changed) == y \notin {p[2] : p \in changed}

\* lines 311-312: Edit(commit, old_file, new_file, h.old_start + x, h.new_start + y)
ChangedEdits(h, changed) ==
    LET ps == PairsInOrder(changed)
    IN  [k \in 1..Len(ps) |->
            [old_line |-> h.old_start + ps[k][1], new_line |-> h.new_start + ps[k][2]]]

\* lines 315-317: Edit(commit, old_file, new_file, h.old_start + x, None)
DeletedEdits(h, changed) ==
    LET pure == SelectSeq(deletions(h), LAMBDA d : IsPureDeletion(d.idx, changed))
    IN  [k \in 1..Len(pure) |->
            [old_line |-> h.old_start + pure[k].idx, new_line |-> None]]

\* lines 320-322: Edit(commit, old_file, new_file, None, h.new_start + y)
AddedEdits_oldStart(h, changed) ==
    LET pure == SelectSeq(additions(h), LAMBDA a : IsPureAddition(a.idx, changed))
    IN  [k \in 1..Len(pure) |->
            [old_line |-> None, new_line |-> h.old_start + pure[k].idx]]

AddedEdits(h, changed) ==
    LET pure == SelectSeq(additions(h), LAMBDA a : IsPureAddition(a.idx, changed))
    IN  [k \in 1..Len(pure) |->
            [old_line |-> None, new_line |-> h.new_start + pure[k].idx]]

\* lines 310-322: the line numbers of the Edits stored for one hunk, in order.
HunkEdits(h, changed) ==
    ChangedEdits(h, changed) \o DeletedEdits(h, changed) \o AddedEdits(h, changed)

\* A context line's body is never read.
LineChoices ==
    {[body |-> <<"a">>, origin |-> " "]}
    \cup {[body |-> b, origin |-> o] : b \in Bodies, o \in {"+", "-"}}

\* (old_start, new_start) of the hunks the matcher is run on.
StartChoices == {<<2, 5>>}

\* A path, kept as what os.path.splitext makes of it.
Path(stem, ext) == [stem |-> stem, ext |-> ext]

MatcherHunks ==
    {[old_file |-> Path("a", ".c"), new_file |-> Path("a", ".c"), old_start |-> s[1],
      new_start |-> s[2], data |-> d] :
        s \in StartChoices, d \in SeqsUpTo(LineChoices, MaxHunkLines)}

(***************************************************************************)
(* The store: the tables of setup (lines 181-247).  A table is the         *)
(* sequence of its rows and a row's AUTOINCREMENT id is its position.      *)
(***************************************************************************)
\* store.find(Commit, Commit.hex == hex).one(): the commit's id, or None.
FindCommit(st, hex) ==
    IF \E i \in 1..Len(st.commits) : st.commits[i].hex = hex
    THEN CHOOSE i \in 1..Len(st.commits) : st.commits[i].hex = hex
    ELSE None

\* store.find(File, File.path == path).one()
FindFile(st, path) ==
    IF \E i \in 1..Len(st.files) : st.files[i] = path
    THEN CHOOSE i \in 1..Len(st.files) : st.files[i] = path
    ELSE None

\* store.find(Bug, Bug.bug_no == i).one()
FindBug(st, bug_no) ==
    IF \E i \in 1..Len(st.bugs) : st.bugs[i] = bug_no
    THEN CHOOSE i \in 1..Len(st.bugs) : st.bugs[i] = bug_no
    ELSE None

\* lines 255-257 and 272-274: the Commit row is added when none has the hex.
UpsertCommit(st, hex, date) ==
    IF FindCommit(st, hex) = None
    THEN [st EXCEPT !.commits = Append(@, [hex |-> hex, date |-> date])]
    ELSE st

\* lines 284-289: the File row is added when none has the path.
UpsertFile(st, path) ==
    IF FindFile(st, path) = None
    THEN [st EXCEPT !.files = Append(@, path)]
    ELSE st

\* lines 262-263: the Bug row is added when none has the number.
UpsertBug(st, bug_no) ==
    IF FindBug(st, bug_no) = None
    THEN [st EXCEPT !.bugs = Append(@, bug_no)]
    ELSE st

\* PRIMARY KEY (parent_id, child_id), line 209, and PRIMARY KEY (bug_id,
\* commit_id), line 232: the INSERT of a row whose key is in the table
\* fails, and Storm raises IntegrityError.
KeyViolated(table, row) == \E i \in 1..Len(table) : table[i] = row

\* store.flush() (lines 258, 268, 290, 324) sends the pending rows to the
\* database inside the open transaction: the committed store stays as it is.
AfterFlush_autocommit(committed, pending) == pending

AfterFlush(committed, pending) == committed

\* lines 261-268: for i in test_regexp(c.message): upsert the Bug and add
\* the link row; bug.commits.add inserts a bugs_commits row without looking
\* for one.  [st, ok]: ok is FALSE when the flush raises.
RECURSIVE LinkBugs(_, _, _)
LinkBugs(st, commit_id, nums) ==
    IF nums = <<>> THEN [st |-> st, ok |-> TRUE]
    ELSE LET st1 == UpsertBug(st, Head(nums))
             row == [bug_id |-> FindBug(st1, Head(nums)), commit_id |-> commit_id]
         IN  IF KeyViolated(st1.bugs_commits, row)
             THEN [st |-> st1, ok |-> FALSE]
             ELSE LinkBugs([st1 EXCEPT !.bugs_commits = Append(@, row)],
                           commit_id, Tail(nums))

\* line 283: splitext(f.old_file)[1] in ['.c', '.h']
IsTracked(h) == h.old_file.ext \in {".c", ".h"}

\* lines 284-324 for one hunk: the two File rows, then the Edits.
StoreHunk(st, commit_id, h, indexes) ==
    LET st1   == UpsertFile(st, h.old_file)
        st2   == UpsertFile(st1, h.new_file)
        lines == HunkEdits(h, ChangedLines(h, indexes))
        rows  == [k \in 1..Len(lines) |->
                    [commit_id   |-> commit_id,
                     old_file_id |-> FindFile(st2, h.old_file),
                     new_file_id |-> FindFile(st2, h.new_file),
                     old_line    |-> lines[k].old_line,
                     new_line    |-> lines[k].new_line]]
    IN  [st2 EXCEPT !.edits = @ \o rows]

\* line 283-324: the stores the loop over the hunks can leave, one per
\* choice of hungarian's result for each tracked hunk.
RECURSIVE StoreHunks(_, _, _)
StoreHunks(st, commit_id, hunks) ==
    IF hunks = <<>> THEN {st}
    ELSE IF ~IsTracked(Head(hunks)) THEN StoreHunks(st, commit_id, Tail(hunks))
    ELSE UNION {StoreHunks(StoreHunk(st, commit_id, Head(hunks), ix),
                           commit_id, Tail(hunks)) :
                   ix \in Indexes(Head(hunks))}

(***************************************************************************)
(* The repository build walks.  Commits are named by their hex, 1..3, and  *)
(* 3 is the head.  repo.parents[c] is c.parents, repo.diff[<<p, c>>] what   *)
(* p.tree.diff(c.tree) gives: [status, hunks], status "error" when the     *)
(* call raises, hunks empty when diff.changes has no 'hunks'.              *)
(***************************************************************************)
Hexes == {1, 2, 3}
\* repo.head: the last commit.
Head_hex == CHOOSE h \in Hexes : \A o \in Hexes : o <= h
MaxRuns == 2    \* build is run at most MaxRuns times over the repository

ParentChoices ==
    { [c \in Hexes |-> CASE c = 1 -> <<>> [] c = 2 -> <<1>> [] c = 3 -> <<2>>],
      [c \in Hexes |-> CASE c = 1 -> <<>> [] c = 2 -> <<>>  [] c = 3 -> <<1, 2>>],
      [c \in Hexes |-> CASE c = 1 -> <<>> [] c = 2 -> <<1>> [] c = 3 -> <<1, 2>>],
      [c \in Hexes |-> CASE c = 1 -> <<>> [] c = 2 -> <<1>> [] c = 3 -> <<2, 1>>] }

Edges(parents) ==
    UNION {{<<parents[c][k], c>> : k \in 1..Len(parents[c])} : c \in Hexes}

MessageChoices == {<<"x">>, <<"bug", " ", "1">>}

Line(body, origin) == [body |-> body, origin |-> origin]

\* A changed line and a pure addition behind a context line.
HunkChange ==
    [old_file |-> Path("a", ".c"), new_file |-> Path("a", ".c"),
     old_start |-> 1, new_start |-> 4,
     data |-> << Line(<<"a">>, " "), Line(<<"a", "a", "a">>, "-"),
                 Line(<<"a", "a", "b">>, "+"), Line(<<"a">>, "+") >>]
\* Two pure deletions around a context line, in a file renamed to a header.
HunkDelete ==
    [old_file |-> Path("a", ".c"), new_file |-> Path("b", ".h"),
     old_start |-> 3, new_start |-> 1,
     data |-> << Line(<<"a">>, "-"), Line(<<"a">>, " "), Line(<<"a", "a">>, "-") >>]
\* A hunk of a file whose old path is not tracked.
HunkUntracked ==
    [old_file |-> Path("n", ".txt"), new_file |-> Path("a", ".c"),
     old_start |-> 1, new_start |-> 1,
     data |-> << Line(<<"a">>, "+") >>]

DiffChoices ==
    { [status |-> "error", hunks |-> <<>>],
      [status |-> "ok",    hunks |-> <<>>],
      [status |-> "ok",    hunks |-> <<HunkChange>>],
      [status |-> "ok",    hunks |-> <<HunkUntracked, HunkDelete>>],
      [status |-> "ok",    hunks |-> <<HunkDelete, HunkChange>>] }

Repos ==
    UNION {{ [parents |-> ps, commit_time |-> [c \in Hexes |-> c],
              message |-> ms, diff |-> ds] :
               ms \in [Hexes -> MessageChoices],
               ds \in [Edges(ps) -> DiffChoices] } : ps \in ParentChoices}

Children(r, c) == {d \in Hexes : \E k \in 1..Len(r.parents[d]) : r.parents[d][k] = c}

\* repo.walk(repo.head.oid, GIT_SORT_REVERSE), line 251: the reverse of a
\* walk from the head in which a commit comes after one of its children.
\* libgit2 promises no more of the order when neither GIT_SORT_TOPOLOGICAL
\* nor GIT_SORT_TIME is asked for, so a parent may come after a child.
WalkOrders(r) ==
    {w \in [1..Cardinality(Hexes) -> Hexes] :
        /\ \A i, j \in DOMAIN w : i # j => w[i] # w[j]
        /\ w[Len(w)] = Head_hex
        /\ \A i \in 1..(Len(w) - 1) :
              \E j \in (i + 1)..Len(w) : w[j] \in Children(r, w[i])}

NoStore == [commits |-> <<>>, files |-> <<>>, bugs |-> <<>>,
            commits_commits |-> <<>>, bugs_commits |-> <<>>, edits |-> <<>>]

NoHunk == [old_file |-> Path("", ""), new_file |-> Path("", ""),
           old_start |-> 0, new_start |-> 0, data |-> <<>>]

NoRepo == [parents |-> <<>>, commit_time |-> <<>>, message |-> <<>>,
           diff |-> <<>>]

EmptyStore == NoStore

TaggerIdle  == message = <<>> /\ tags = <<>> /\ tpc = "off"
MatcherIdle == hunk = NoHunk /\ changed_lines = {} /\ emitted = <<>> /\ mpc = "off"
BuildIdle   == /\ repo = NoRepo /\ walk = <<>> /\ pos = 0 /\ phase = "off"
               /\ pidx = 0 /\ tx = NoStore /\ run = 0 /\ pc = "off"
               /\ err = "none" /\ outcome = <<>> /\ snap = NoStore /\ saved = {}
ResolverIdle == /\ options = [from_date |-> None, to_date |-> None]
                /\ todo = {} /\ sel = <<>> /\ report = <<>>

InitTagger ==
    /\ message \in Messages
    /\ tags = <<>>
    /\ tpc = "ready"
    /\ MatcherIdle /\ BuildIdle /\ ResolverIdle /\ db = NoStore

\* test_regexp(c.message), as build calls it at line 261.
Tag ==
    /\ tpc = "ready"
    /\ tags' = test_regexp(message)
    /\ tpc' = "tagged"
    /\ UNCHANGED <<message, matcherVars, buildVars, resolverVars, db>>

NextTagger == Tag

SpecTagger == InitTagger /\ [][NextTagger]_vars

InitMatcher ==
    /\ hunk \in MatcherHunks
    /\ changed_lines = {}
    /\ emitted = <<>>
    /\ mpc = "ready"
    /\ TaggerIdle /\ BuildIdle /\ ResolverIdle /\ db = NoStore

\* lines 292-322 for one hunk.
MatchHunk ==
    /\ mpc = "ready"
    /\ \E indexes \in Indexes(hunk) :
          /\ changed_lines' = ChangedLines(hunk, indexes)
          /\ emitted' = HunkEdits(hunk, changed_lines')
    /\ mpc' = "matched"
    /\ UNCHANGED <<hunk, taggerVars, buildVars, resolverVars, db>>

NextMatcher == MatchHunk

SpecMatcher == InitMatcher /\ [][NextMatcher]_vars

(***************************************************************************)
(* build (lines 250-327).  One iteration of the loop over the commits is   *)
(* the steps StoreCommit, CheckMessage, CheckParent for each parent, and   *)
(* SaveChanges; the process can be interrupted between any two of them.    *)
(***************************************************************************)
InitBuild ==
    /\ repo \in Repos
    /\ walk \in WalkOrders(repo)
    /\ pos = 0 /\ phase = "none" /\ pidx = 0
    /\ db = EmptyStore /\ tx = EmptyStore
    /\ run = 0 /\ pc = "idle" /\ err = "none"
    /\ outcome = <<>> /\ snap = EmptyStore /\ saved = {}
    /\ TaggerIdle /\ MatcherIdle /\ ResolverIdle

cur == walk[pos]

\* The run ends: the process exits, and what was not committed is lost.
EndRun(how, why, committed) ==
    /\ pc' = how
    /\ err' = why
    /\ tx' = committed
    /\ phase' = "none"
    /\ pidx' = 0
    /\ outcome' = Append(outcome, how)
    /\ snap' = IF outcome = <<>> THEN committed ELSE snap

\* main, lines 409-410: build is called on the store setup opened.
StartBuild ==
    /\ pc \in {"idle", "done", "error", "killed"}
    /\ run < MaxRuns
    /\ run' = run + 1
    /\ pc' = "running" /\ err' = "none"
    /\ pos' = 1 /\ phase' = "store" /\ pidx' = 0
    /\ tx' = db
    /\ UNCHANGED <<repo, walk, db, outcome, snap, saved,
                   taggerVars, matcherVars, resolverVars>>

\* lines 255-258
StoreCommit ==
    /\ pc = "running" /\ phase = "store"
    /\ tx' = UpsertCommit(tx, cur, repo.commit_time[cur])
    /\ db' = AfterFlush(db, tx')
    /\ phase' = "tag"
    /\ UNCHANGED <<repo, walk, pos, pidx, run, pc, err, outcome, snap, saved,
                   taggerVars, matcherVars, resolverVars>>

\* lines 261-268
CheckMessage ==
    /\ pc = "running" /\ phase = "tag"
    /\ LET r == LinkBugs(tx, FindCommit(tx, cur), test_regexp(repo.message[cur]))
       IN  IF r.ok
           THEN /\ tx' = r.st
                /\ db' = AfterFlush(db, tx')
                /\ phase' = "parents"
                /\ pidx' = 1
                /\ UNCHANGED <<pc, err, outcome, snap>>
           ELSE /\ EndRun("error", "integrity", db)
                /\ UNCHANGED db
    /\ UNCHANGED <<repo, walk, pos, run, saved,
                   taggerVars, matcherVars, resolverVars>>

\* lines 271-324 for the parent c.parents[pidx]
CheckParent ==
    /\ pc = "running" /\ phase = "parents" /\ pidx <= Len(repo.parents[cur])
    /\ LET p    == repo.parents[cur][pidx]
           st1  == UpsertCommit(tx, p, repo.commit_time[p])
           row  == [parent_id |-> FindCommit(st1, p), child_id |-> FindCommit(st1, cur)]
           st2  == [st1 EXCEPT !.commits_commits = Append(@, row)]
           diff == repo.diff[<<p, cur>>]
       IN  IF diff.status = "error"
           THEN \* line 279 raises, and nothing in build catches it
                /\ EndRun("error", "diff", db)
                /\ UNCHANGED db
           ELSE IF KeyViolated(st1.commits_commits, row)
           THEN \* the flush of the link row raises before line 327 is reached
                /\ EndRun("error", "integrity", db)
                /\ UNCHANGED db
           ELSE /\ tx' \in StoreHunks(st2, FindCommit(st1, cur), diff.hunks)
                /\ db' = AfterFlush(db, tx')
                /\ pidx' = pidx + 1
                /\ UNCHANGED <<phase, pc, err, outcome, snap>>
    /\ UNCHANGED <<repo, walk, pos, run, saved,
                   taggerVars, matcherVars, resolverVars>>

\* line 327: store.commit(), then the next commit of the walk
SaveChanges ==
    /\ pc = "running" /\ phase = "parents" /\ pidx > Len(repo.parents[cur])
    /\ db' = tx
    /\ saved' = saved \cup {cur}
    /\ IF pos < Len(walk)
       THEN /\ pos' = pos + 1
            /\ phase' = "store"
            /\ pidx' = 0
            /\ UNCHANGED <<tx, pc, err, outcome, snap>>
       ELSE /\ EndRun("done", "none", tx)
            /\ UNCHANGED pos
    /\ UNCHANGED <<repo, walk, run, taggerVars, matcherVars, resolverVars>>

\* The process is killed while build runs: the open transaction is lost.
Interrupt ==
    /\ pc = "running"
    /\ EndRun("killed", "none", db)
    /\ UNCHANGED <<repo, walk, pos, db, run, saved,
                   taggerVars, matcherVars, resolverVars>>

NextBuild ==
    \/ StartBuild
    \/ StoreCommit
    \/ CheckMessage
    \/ CheckParent
    \/ SaveChanges
    \/ Interrupt

SpecBuild == InitBuild /\ [][NextBuild]_vars

(***************************************************************************)
(* process (lines 329-359), run on a store build has filled.  Dates are    *)
(* seconds since the epoch; a day has SecsPerDay of them (86400, scaled    *)
(* down), and --from / --to name a day by its number.                      *)
(***************************************************************************)
MaxDate    == 2     \* commit dates are 0..MaxDate
SecsPerDay == 2     \* seconds in a day

Days == 0..(MaxDate \div SecsPerDay)

\* mktime(strptime(value, "%d/%m/%Y")): the first second of the day.
mktime_strptime(day) == day * SecsPerDay

\* lines 330-334: the expressions on the date of a fix commit.
PassesDateFilter(date, opts) ==
    /\ opts.from_date # None => date >= mktime_strptime(opts.from_date)
    /\ opts.to_date # None => date <= mktime_strptime(opts.to_date)

\* line 338: bug.commits.find(And(expressions)), as commit ids.
FixCommits(st, bug_id, opts) ==
    {c \in 1..Len(st.commits) :
        /\ \E i \in 1..Len(st.bugs_commits) :
              st.bugs_commits[i] = [bug_id |-> bug_id, commit_id |-> c]
        /\ PassesDateFilter(st.commits[c].date, opts)}

\* line 349: commit.edits, as edit ids.
EditsOf(st, c) == {e \in 1..Len(st.edits) : st.edits[e].commit_id = c}

\* lines 350-354: the commits joined to an Edit whose new side is the old
\* side of the fix's edit.  Storm compiles a comparison with None to
\* IS NULL, so a null old_line matches the Edits whose new_line is null.
Origins_notStrict(st, fix, edit) ==
    {c \in 1..Len(st.commits) :
        /\ st.commits[c].date <= st.commits[fix].date
        /\ \E e \in EditsOf(st, c) :
              /\ st.edits[e].new_file_id = edit.old_file_id
              /\ st.edits[e].new_line = edit.old_line}

Origins(st, fix, edit) ==
    {c \in 1..Len(st.commits) :
        /\ st.commits[c].date < st.commits[fix].date
        /\ \E e \in EditsOf(st, c) :
              /\ st.edits[e].new_file_id = edit.old_file_id
              /\ st.edits[e].new_line = edit.old_line}

\* line 355: result.order_by(Desc(Commit.date)).first(): a commit of the
\* greatest date, or None; which one of several is the database's choice.
FirstByDateDesc(st, cs) ==
    IF cs = {} THEN {None}
    ELSE {c \in cs : \A o \in cs : st.commits[o].date <= st.commits[c].date}

\* lines 337-356 for one bug: the (fix, edit) pairs visited.
FixEdits(st, bug_id, opts) ==
    UNION {{<<fix, e>> : e \in EditsOf(st, fix)} :
              fix \in FixCommits(st, bug_id, opts)}

\* The stores process is run on: a root commit without Edits and three
\* commits after it with at most one Edit each, each commit linked to at
\* most one bug (test_regexp returns at most one number).
EditOn(old_file, old_line, new_file, new_line) ==
    [old |-> [file |-> old_file, line |-> old_line],
     new |-> [file |-> new_file, line |-> new_line]]

\* No Edit; or line 1 of file 1 added, deleted or changed; or line 1 of
\* file 2 changed; or file 2 renamed to file 1 with line 1 changed.
EditChoices ==
    { <<>>,
      <<EditOn(1, None, 1, 1)>>,
      <<EditOn(1, 1, 1, None)>>,
      <<EditOn(1, 1, 1, 1)>>,
      <<EditOn(2, 1, 2, 1)>>,
      <<EditOn(2, 1, 1, 1)>> }

LinkChoices == {<<None, None, None, 1>>, <<None, None, 1, 1>>,
                <<None, None, 2, 1>>, <<None, 1, None, 2>>}

\* The commits' dates, oldest first; the root is of date 0.
DateChoices ==
    {d \in [1..4 -> 0..MaxDate] :
        d[1] = 0 /\ d[2] <= d[3] /\ d[3] <= d[4]}

WindowChoices ==
    {[from_date |-> f, to_date |-> t] : f \in {None} \cup Days,
                                        t \in {None} \cup Days}

RECURSIVE BugsOfLinks(_)
BugsOfLinks(links) ==
    IF links = <<>> THEN <<>>
    ELSE LET rest == BugsOfLinks(SubSeq(links, 1, Len(links) - 1))
             n    == links[Len(links)]
         IN  IF n = None \/ n \in Range(rest) THEN rest ELSE Append(rest, n)

BuiltStore(dates, links, edits) ==
    LET bugs   == BugsOfLinks(links)
        bugId(n) == CHOOSE i \in 1..Len(bugs) : bugs[i] = n
        linked == SelectSeq(<<1, 2, 3, 4>>, LAMBDA c : links[c] # None)
        edited == SelectSeq(<<2, 3, 4>>, LAMBDA c : edits[c] # <<>>)
    IN  [commits |-> [c \in 1..4 |-> [hex |-> c, date |-> dates[c]]],
         files   |-> <<Path("a", ".c"), Path("b", ".h")>>,
         bugs    |-> bugs,
         commits_commits |-> [c \in 1..3 |-> [parent_id |-> c, child_id |-> c + 1]],
         bugs_commits |-> [k \in 1..Len(linked) |->
                             [bug_id |-> bugId(links[linked[k]]),
                              commit_id |-> linked[k]]],
         edits |-> [k \in 1..Len(edited) |->
                      [commit_id   |-> edited[k],
                       old_file_id |-> edits[edited[k]][1].old.file,
                       new_file_id |-> edits[edited[k]][1].new.file,
                       old_line    |-> edits[edited[k]][1].old.line,
                       new_line    |-> edits[edited[k]][1].new.line]]]

InitResolver ==
    /\ \E dates \in DateChoices, links \in LinkChoices,
          edits \in [2..4 -> EditChoices] :
          db = BuiltStore(dates, links, edits)
    /\ options \in WindowChoices
    /\ todo = 1..Len(db.bugs)
    /\ sel = <<>>
    /\ report = <<>>
    /\ TaggerIdle /\ MatcherIdle /\ BuildIdle

\* lines 336-359 for one bug of store.find(Bug)
ProcessBug ==
    /\ todo # {}
    /\ LET bug == CHOOSE b \in todo : \A o \in todo : b <= o
           fes == FixEdits(db, bug, options)
           first == [fe \in fes |->
                        FirstByDateDesc(db, Origins(db, fe[1], db.edits[fe[2]]))]
       IN  \E picks \in [fes -> (1..Len(db.commits)) \cup {None}] :
              /\ \A fe \in fes : picks[fe] \in first[fe]
              /\ LET patches == {picks[fe] : fe \in fes} \ {None}
                 IN  /\ sel' = Append(sel, [bug |-> bug,
                                            fixes |-> FixCommits(db, bug, options),
                                            picks |-> picks])
                     /\ report' = IF patches # {}
                                  THEN Append(report,
                                         [bug_no |-> db.bugs[bug],
                                          hexes |-> {db.commits[c].hex : c \in patches}])
                                  ELSE report
              /\ todo' = todo \ {bug}
    /\ UNCHANGED <<options, db, taggerVars, matcherVars, buildVars>>

NextResolver == ProcessBug

SpecResolver == InitResolver /\ [][NextResolver]_vars

(***************************************************************************)
(* Properties of the tagger and of the line matcher.                       *)
(***************************************************************************)
Matches(key) == PatternSearch(key, message) # {}
GroupsOf(key) == CHOOSE g \in PatternSearch(key, message) : TRUE

\* C4: test_regexp returns the captures of the first pattern, in the order
\* bug-number, bracketed integer, hash-prefixed integer, closing-verb
\* sentence, that matches the message, whatever other patterns match too;
\* a message matching the bracket and the hash pattern (and not the
\* bug-number pattern) gives the bracketed number; the result is empty
\* only when no pattern matches.
C4_FirstPatternInOrderWins ==
    tpc = "tagged" =>
        /\ tags = IF Matches("bug_number") THEN GroupsOf("bug_number")
                  ELSE IF Matches("bracket_number") THEN GroupsOf("bracket_number")
                  ELSE IF Matches("issue_number") THEN GroupsOf("issue_number")
                  ELSE IF Matches("sentence") THEN GroupsOf("sentence")
                  ELSE <<>>
        /\ (tags = <<>>) <=> (\A key \in regexp_keys : ~Matches(key))

\* "See [17] and #99": the bracket and the hash pattern match with different
\* numbers, and the bracketed number is returned.
C4_Witness ==
    /\ tpc = "tagged"
    /\ message = <<"x", "[", "1", "]", "#", "2">>
    /\ Matches("bracket_number") /\ Matches("issue_number")
    /\ tags = <<1>>

\* Positions of the hunk's line stream holding a line of the given origin.
LinesOf(h, origin) == {k \in 1..Len(h.data) : h.data[k].origin = origin}
\* Index of stream position k in the old-side view (context and deletions).
OldIndex(h, k) == Cardinality({j \in 1..(k - 1) : h.data[j].origin # "+"})
\* Index of stream position k in the new-side view (context and additions).
NewIndex(h, k) == Cardinality({j \in 1..(k - 1) : h.data[j].origin # "-"})

EmittedAt(old_line, new_line) ==
    {e \in 1..Len(emitted) :
        emitted[e].old_line = old_line /\ emitted[e].new_line = new_line}

\* C9: the Changed pairs are one-to-one; every deletion line is the old side
\* of exactly one Changed pair or a pure deletion, never both, and likewise
\* every addition line; the hunk yields |deletions| + |additions| - |Changed|
\* Edits; when either vector is empty the Changed set is empty.
C9_MatcherPartitionsLines ==
    mpc = "matched" =>
        LET D == LinesOf(hunk, "-")
            A == LinesOf(hunk, "+")
            changedOld(k) == {p \in changed_lines : p[1] = OldIndex(hunk, k)}
            changedNew(k) == {p \in changed_lines : p[2] = NewIndex(hunk, k)}
        IN  /\ \A p, q \in changed_lines : (p[1] = q[1]) <=> (p[2] = q[2])
            /\ \A p \in changed_lines :
                  /\ \E k \in D : OldIndex(hunk, k) = p[1]
                  /\ \E k \in A : NewIndex(hunk, k) = p[2]
                  /\ Cardinality(EmittedAt(hunk.old_start + p[1],
                                           hunk.new_start + p[2])) = 1
            /\ \A k \in D :
                  /\ Cardinality(changedOld(k)) <= 1
                  /\ Cardinality(EmittedAt(hunk.old_start + OldIndex(hunk, k), None))
                        = 1 - Cardinality(changedOld(k))
            /\ \A k \in A :
                  /\ Cardinality(changedNew(k)) <= 1
                  /\ Cardinality(EmittedAt(None, hunk.new_start + NewIndex(hunk, k)))
                        = 1 - Cardinality(changedNew(k))
            /\ Len(emitted) = Cardinality(D) + Cardinality(A)
                                - Cardinality(changed_lines)
            /\ (D = {} \/ A = {}) => changed_lines = {}

\* A hunk with two deletions and two additions of which one pair is Changed,
\* one deletion pure and one addition pure.
C9_Witness ==
    /\ mpc = "matched"
    /\ Cardinality(LinesOf(hunk, "-")) = 2
    /\ Cardinality(LinesOf(hunk, "+")) = 2
    /\ Cardinality(changed_lines) = 1
    /\ Len(emitted) = 3

\* Every deletion line's body is the body of some addition line of the hunk.
EachDeletionHasIdenticalAddition(h) ==
    \A k \in LinesOf(h, "-") :
        \E j \in LinesOf(h, "+") : h.data[j].body = h.data[k].body

\* The deletions and additions can be paired one-to-one into pairs of
\* identical body, pairing every deletion (or, when the deletions are more,
\* every addition).
IdenticalPairing(h) ==
    LET D == LinesOf(h, "-")
        A == LinesOf(h, "+")
    IN  IF Cardinality(D) <= Cardinality(A)
        THEN \E f \in [D -> A] :
                /\ \A k, l \in D : k # l => f[k] # f[l]
                /\ \A k \in D : h.data[f[k]].body = h.data[k].body
        ELSE \E f \in [A -> D] :
                /\ \A k, l \in A : k # l => f[k] # f[l]
                /\ \A k \in A : h.data[f[k]].body = h.data[k].body

AllEmittedPure ==
    \A e \in 1..Len(emitted) :
        emitted[e].old_line = None \/ emitted[e].new_line = None

\* C7 as stated: whenever each deletion line's body is identical to the body
\* of some addition line of the hunk, the matcher produces no Changed pair
\* and every Edit is a pure deletion or a pure addition.
C7_Original ==
    (mpc = "matched" /\ EachDeletionHasIdenticalAddition(hunk)) =>
        (changed_lines = {} /\ AllEmittedPure)

\* C7 amended: whenever the deletions and additions can be paired one-to-one
\* into pairs of identical body, the matcher produces no Changed pair and
\* every Edit is a pure deletion or a pure addition.
C7_IdenticalPairingGivesNoChange ==
    (mpc = "matched" /\ IdenticalPairing(hunk)) =>
        (changed_lines = {} /\ AllEmittedPure)

\* Two deletions of different bodies within 0.4 of each other, and two
\* additions identical to them: four pure Edits.
C7_Witness ==
    /\ mpc = "matched"
    /\ Cardinality(LinesOf(hunk, "-")) = 2
    /\ Cardinality(LinesOf(hunk, "+")) = 2
    /\ \A k \in LinesOf(hunk, "-") : Len(hunk.data[k].body) = 3
    /\ \E j, k \in LinesOf(hunk, "-") : hunk.data[j].body # hunk.data[k].body
    /\ IdenticalPairing(hunk)
    /\ changed_lines = {}
    /\ Len(emitted) = 4

(***************************************************************************)
(* Properties of build.                                                    *)
(***************************************************************************)
\* The number of times each element occurs in a sequence.
BagOfSeq(q) == [x \in Range(q) |-> Cardinality({i \in 1..Len(q) : q[i] = x})]

\* The rows of a store with every id replaced by what it refers to, and
\* each table as a bag: equal for stores that differ in ids and row order.
RowsOf(st) ==
    LET hexOf(id)  == st.commits[id].hex
        pathOf(id) == st.files[id]
    IN  [commits |-> BagOfSeq(st.commits),
         files   |-> BagOfSeq(st.files),
         bugs    |-> BagOfSeq(st.bugs),
         commits_commits |->
             BagOfSeq([i \in 1..Len(st.commits_commits) |->
                 <<hexOf(st.commits_commits[i].parent_id),
                   hexOf(st.commits_commits[i].child_id)>>]),
         bugs_commits |->
             BagOfSeq([i \in 1..Len(st.bugs_commits) |->
                 <<st.bugs[st.bugs_commits[i].bug_id],
                   hexOf(st.bugs_commits[i].commit_id)>>]),
         edits |->
             BagOfSeq([i \in 1..Len(st.edits) |->
                 <<hexOf(st.edits[i].commit_id), pathOf(st.edits[i].old_file_id),
                   pathOf(st.edits[i].new_file_id), st.edits[i].old_line,
                   st.edits[i].new_line>>])]

\* C1: build on an empty store followed by build over the same history on
\* the resulting store completes and leaves the same rows, ignoring ids and
\* row order, as the first run.
C1_ReplayIsIdempotent ==
    (run = 2 /\ outcome[1] = "done" /\ pc \in {"done", "error"}) =>
        (pc = "done" /\ RowsOf(db) = RowsOf(snap))

ParentsOf(c) == Range(repo.parents[c])

\* The Commit row of c is in the store, with its bug links.
HasCommitRows(st, c) ==
    /\ FindCommit(st, c) # None
    /\ \A n \in Range(test_regexp(repo.message[c])) :
          /\ FindBug(st, n) # None
          /\ \E i \in 1..Len(st.bugs_commits) :
                st.bugs_commits[i] =
                    [bug_id |-> FindBug(st, n), commit_id |-> FindCommit(st, c)]

\* The store has an Edit of commit c for the line at position k of hunk h.
HasEditOfLine(st, c, h, k) ==
    \E i \in 1..Len(st.edits) :
        /\ st.edits[i].commit_id = FindCommit(st, c)
        /\ st.files[st.edits[i].old_file_id] = h.old_file
        /\ st.files[st.edits[i].new_file_id] = h.new_file
        /\ \/ h.data[k].origin = "-"
              /\ st.edits[i].old_line = h.old_start + OldIndex(h, k)
           \/ h.data[k].origin = "+"
              /\ st.edits[i].new_line = h.new_start + NewIndex(h, k)

\* The parent edge p -> c is in the store, and an Edit for every deleted
\* and added line of the tracked hunks of the diff against p.
HasParentRows(st, c, p) ==
    /\ FindCommit(st, c) # None /\ FindCommit(st, p) # None
    /\ \E i \in 1..Len(st.commits_commits) :
          st.commits_commits[i] =
              [parent_id |-> FindCommit(st, p), child_id |-> FindCommit(st, c)]
    /\ \A j \in 1..Len(repo.diff[<<p, c>>].hunks) :
          LET h == repo.diff[<<p, c>>].hunks[j]
          IN  h.old_file.ext \in {".c", ".h"} =>
                 \A k \in LinesOf(h, "-") \cup LinesOf(h, "+") :
                     HasEditOfLine(st, c, h, k)

FailingParents(c) == {p \in ParentsOf(c) : repo.diff[<<p, c>>].status = "error"}

\* C5: when the diff against one parent of a commit fails, only that parent
\* is skipped: the run goes on to its end, and every commit of the walk is
\* committed with its Commit row, its bug links and the Edits of its other
\* parents.
C5_DiffErrorSkipsOnlyThatParent ==
    (run = 1 /\ pc \in {"done", "error"}
        /\ \E c \in Hexes : FailingParents(c) # {}) =>
        /\ pc = "done"
        /\ \A c \in Hexes :
              /\ c \in saved
              /\ HasCommitRows(db, c)
              /\ \A p \in ParentsOf(c) \ FailingParents(c) : HasParentRows(db, c, p)

\* Every row build produces for commit c is in the store.
AllRowsOf(st, c) ==
    /\ HasCommitRows(st, c)
    /\ \A p \in ParentsOf(c) : HasParentRows(st, c, p)

\* No row of commit c is in the store.
NoRowOf(st, c) == FindCommit(st, c) = None

\* No row but, possibly, the Commit row of c is in the store.
NoOwnRowOf(st, c) ==
    \/ FindCommit(st, c) = None
    \/ /\ \A i \in 1..Len(st.commits_commits) :
             st.commits_commits[i].child_id # FindCommit(st, c)
       /\ \A i \in 1..Len(st.bugs_commits) :
             st.bugs_commits[i].commit_id # FindCommit(st, c)
       /\ \A i \in 1..Len(st.edits) :
             st.edits[i].commit_id # FindCommit(st, c)

EditWellFormed(st, e) ==
    /\ \/ e.old_line # None /\ e.new_line = None
       \/ e.old_line = None /\ e.new_line # None
       \/ e.old_line # None /\ e.new_line # None
    /\ \E c \in Hexes : \E p \in ParentsOf(c) :
          \E j \in 1..Len(repo.diff[<<p, c>>].hunks) :
             LET h == repo.diff[<<p, c>>].hunks[j]
             IN  /\ st.commits[e.commit_id].hex = c
                 /\ st.files[e.old_file_id] = h.old_file
                 /\ st.files[e.new_file_id] = h.new_file
                 /\ e.old_line # None =>
                       \E k \in LinesOf(h, "-") :
                           e.old_line = h.old_start + OldIndex(h, k)
                 /\ e.new_line # None =>
                       \E k \in LinesOf(h, "+") :
                           e.new_line = h.new_start + NewIndex(h, k)

\* C10: every Edit row of the store is a deletion (old_line not null,
\* new_line null), an addition (old_line null, new_line not null) or a
\* change (both not null), never both null, and every non-null line number
\* is the hunk's start line on that side plus the line's index within that
\* side's view of the hunk.
C10_EditsWellFormed ==
    /\ \A i \in 1..Len(db.edits) : EditWellFormed(db, db.edits[i])
    /\ \A i \in 1..Len(tx.edits) : EditWellFormed(tx, tx.edits[i])

\* The committed store holds a deletion, an addition and a change.
C10_Witness ==
    /\ \E i \in 1..Len(db.edits) :
          db.edits[i].old_line # None /\ db.edits[i].new_line = None
    /\ \E i \in 1..Len(db.edits) :
          db.edits[i].old_line = None /\ db.edits[i].new_line # None
    /\ \E i \in 1..Len(db.edits) :
          db.edits[i].old_line # None /\ db.edits[i].new_line # None

(***************************************************************************)
(* Properties of process.                                                  *)
(***************************************************************************)
DateOf(c) == db.commits[c].date
LinkedTo(bug) ==
    {c \in 1..Len(db.commits) :
        \E i \in 1..Len(db.bugs_commits) :
            db.bugs_commits[i] = [bug_id |-> bug, commit_id |-> c]}
OwnEdits(c) == {i \in 1..Len(db.edits) : db.edits[i].commit_id = c}

\* c is before the fix and owns an Edit whose new file and line are the
\* old file and line of the fix's Edit e.
IsCandidate(c, fix, e) ==
    /\ DateOf(c) < DateOf(fix)
    /\ \E i \in OwnEdits(c) :
          /\ db.edits[i].new_file_id = db.edits[e].old_file_id
          /\ db.edits[i].new_line = db.edits[e].old_line

ReportedFor(bug) == {i \in 1..Len(report) : report[i].bug_no = db.bugs[bug]}

\* C2: for every bug, every fix commit that passes the date filter and every
\* Edit e of it, the commit selected for e is before the fix, owns an Edit
\* whose new file and line are e's old file and line, and no other such
\* commit is later (none is selected only when there is no such commit);
\* the hashes printed for the bug are those of the selected commits, each
\* once, and a bug with no selected commit is not printed.
C2_ResolverSelectsLatestOrigin ==
    \A k \in 1..Len(sel) :
        LET s   == sel[k]
            fes == {fe \in s.fixes \X (1..Len(db.edits)) : fe[2] \in OwnEdits(fe[1])}
            hs  == {db.commits[s.picks[fe]].hex :
                       fe \in {g \in fes : s.picks[g] # None}}
        IN  /\ DOMAIN s.picks = fes
            /\ \A fe \in fes :
                  LET c == s.picks[fe]
                  IN  /\ c = None =>
                            \A o \in 1..Len(db.commits) : ~IsCandidate(o, fe[1], fe[2])
                      /\ c # None =>
                            /\ IsCandidate(c, fe[1], fe[2])
                            /\ \A o \in 1..Len(db.commits) :
                                  IsCandidate(o, fe[1], fe[2]) => DateOf(o) <= DateOf(c)
            /\ hs = {} => ReportedFor(s.bug) = {}
            /\ hs # {} => /\ Cardinality(ReportedFor(s.bug)) = 1
                          /\ \A i \in ReportedFor(s.bug) : report[i].hexes = hs

\* Two commits before the fix introduced the line the fix edits; the later
\* one is selected and printed.
C2_Witness ==
    \E k \in 1..Len(sel) : \E fe \in DOMAIN sel[k].picks :
        /\ sel[k].picks[fe] # None
        /\ db.edits[fe[2]].old_line # None
        /\ \E o \in 1..Len(db.commits) :
              /\ IsCandidate(o, fe[1], fe[2])
              /\ DateOf(o) < DateOf(sel[k].picks[fe])
        /\ ReportedFor(sel[k].bug) # {}

\* C3: every origin commit reported introduced, as the new side (new_line
\* not null) of one of its Edits, a file and line that an Edit of a fix
\* commit of the bug touches as its old side (old_line not null); an Edit
\* of a fix commit that is a pure addition selects no commit.
C3_OriginIntroducedTheFixedLine ==
    \A k \in 1..Len(sel) : \A fe \in DOMAIN sel[k].picks :
        LET c == sel[k].picks[fe]
            e == db.edits[fe[2]]
        IN  /\ e.old_line = None => c = None
            /\ c # None =>
                  \E i \in OwnEdits(c) :
                      /\ db.edits[i].new_line # None
                      /\ db.edits[i].new_file_id = e.old_file_id
                      /\ db.edits[i].new_line = e.old_line

DayOf(date) == date \div SecsPerDay

\* C8: a fix commit is considered if and only if the day of its date is not
\* before the --from day and not after the --to day, both days included;
\* the commits selected as origins are not filtered by date.
C8_WindowIsInclusiveInDays ==
    \A k \in 1..Len(sel) :
        /\ sel[k].fixes =
              {c \in LinkedTo(sel[k].bug) :
                  /\ options.from_date # None => DayOf(DateOf(c)) >= options.from_date
                  /\ options.to_date # None => DayOf(DateOf(c)) <= options.to_date}
        /\ \A fe \in DOMAIN sel[k].picks :
              sel[k].picks[fe] = None =>
                  \A o \in 1..Len(db.commits) : ~IsCandidate(o, fe[1], fe[2])

====
